---- MODULE Spec2Model ----
(***************************************************************************)
(* Asteroid gliders: massless gliders tracing equipotential lines of a     *)
(* field of stationary planets (src/src/glider.hpp, src/src/glider.cpp,    *)
(* system.hpp in src/unnamed/part_003).                                    *)
(*                                                                         *)
(* Numbers.  The program computes in IEEE floats.  Here a float is a       *)
(* record [k, v]: k = "fin" with the integer value v, k = "nan" (not a     *)
(* number: every comparison with it is false and every sum or product with *)
(* it is nan), or k = "min" (std::numeric_limits<float>::min(), the        *)
(* smallest positive normal float, below every positive integer and above  *)
(* zero).  A point is [x, y, nan]: integer pixel coordinates, or the       *)
(* not-a-number point norm() makes of the zero vector.  Field strengths    *)
(* are fixed-point integers (scale FieldScale), divisions truncate.        *)
(***************************************************************************)
EXTENDS Integers, Sequences, FiniteSets, TLC

(***************************************************************************)
(* Bounds of the model.                                                    *)
(***************************************************************************)
\* window size in pixels (glider.cpp: 1800 x 1000)
Width == 40
Height == 30
\* nr_planets (glider.cpp: 10)
NrPlanets == 2
\* nr_gliders drawn per redraw (glider.cpp: 1000, or 10 behind a plot)
NrGliders == 2
\* max_steps (glider.cpp: 200)
MaxSteps == 2
\* max_attempts of findNicePath (glider.hpp: 1000)
MaxAttempts == 3
\* masses are drawn from MassLevels values k / MassLevels in [0, 1)
MassLevels == 3
\* the seeds the user reaches with R / shift+R lie within MaxSeed of the
\* initial seed; the seeds of the systems tried lie in -MaxSeed .. MaxSeed
MaxSeed == 1
\* longest path handed to scorePath as an input
MaxPathLen == 3
\* nice_path_seed, reached with N / shift+N, lies within MaxNiceSeed of its
\* initial value
MaxNiceSeed == 1
\* screenshots saved in one run
MaxShots == 1
\* the highest index of a screenshot left by an earlier run
MaxOldShots == 2
\* gliders drawn over a potential, gravity or angular-gradient plot
\* (glider.cpp: 10)
NrPlotGliders == 1
\* steps followed of a call of the older generateGliderTrajectory
MaxLegacyRun == 3
\* the length given to a potential correction too long to matter: any
\* offset beyond it ends the loop all the same
FarOffset == 100

(***************************************************************************)
(* Program constants.                                                      *)
(***************************************************************************)
Stepsize == 10
SqUpperDistLimit == 400
\* sq_lower_dist_limit = 0.005f, in thousandths
SqLowerDistLimitMilli == 5
GravitationalConstant == 2000
SpiralFactor == 4
OobPenalty == 3
CrashPenalty == 500
CrashSqRadius == 100
SwitchBonus == 100
\* the integrator's inputs: starts on a grid of this radius, step sizes up
\* to MaxStepsize, MaxIntegCalls calls on the same arguments
IntegGrid == 2
MaxStepsize == 3
MaxIntegCalls == 2
\* fixed-point scale of the field strengths
FieldScale == 100000
\* const float stepsize = 6.f of the older gliderStep
LegacyStepsize == 6
\* float sq_last_dist = 1.f of the older generateGliderTrajectory
InitialSqLastDist == 1
\* int seed = 3; int nice_path_seed = 1;  The older main: int seed = 23;
OldInitialSeed == 23
InitialSeed == 3
InitialNicePathSeed == 1

(***************************************************************************)
(* Integer helpers.                                                        *)
(***************************************************************************)
Abs(a) == IF a < 0 THEN -a ELSE a

Max2(a, b) == IF a < b THEN b ELSE a

\* C++ division of integers and the truncation of a quotient: toward zero
TruncDiv(a, b) ==
    IF (a >= 0) = (b > 0) THEN Abs(a) \div Abs(b) ELSE -(Abs(a) \div Abs(b))

RECURSIVE IsqrtFrom(_, _)
IsqrtFrom(n, r) == IF (r + 1) * (r + 1) > n THEN r ELSE IsqrtFrom(n, r + 1)

RECURSIVE IsqrtBin(_, _, _)
IsqrtBin(n, lo, hi) ==
    IF hi - lo <= 1 THEN IsqrtFrom(n, lo)
    ELSE LET mid == (lo + hi) \div 2
         IN IF mid * mid <= n THEN IsqrtBin(n, mid, hi) ELSE IsqrtBin(n, lo, mid)

\* floor of the square root (sqrt in point::mag), n < 2^30
Isqrt(n) == IsqrtBin(n, 0, 32768)

(***************************************************************************)
(* point (src/src/point.hpp)                                               *)
(***************************************************************************)
Pt(a, b) == [x |-> a, y |-> b, nan |-> FALSE]

NaNPoint == [x |-> 0, y |-> 0, nan |-> TRUE]

PtAdd(p, q) == IF p.nan \/ q.nan THEN NaNPoint ELSE Pt(p.x + q.x, p.y + q.y)

PtSub(p, q) == IF p.nan \/ q.nan THEN NaNPoint ELSE Pt(p.x - q.x, p.y - q.y)

PtNeg(p) == IF p.nan THEN NaNPoint ELSE Pt(-p.x, -p.y)

PtMul(p, f) == IF p.nan THEN NaNPoint ELSE Pt(p.x * f, p.y * f)

\* operator/ by a finite non-zero float
PtDiv(p, f) == IF p.nan THEN NaNPoint ELSE Pt(TruncDiv(p.x, f), TruncDiv(p.y, f))

\* sqmag of a point that is a number
sqmag(p) == p.x * p.x + p.y * p.y

\* stepsize * norm(): (*this) / mag(), scaled to length len, each component
\* truncated toward zero.  The zero vector divides 0 by 0: not a number.
\* Long vectors are scaled down first, as the float exponent does, to keep
\* the squares in range.
normTimes(p, len) ==
    IF p.nan \/ (p.x = 0 /\ p.y = 0) THEN NaNPoint
    ELSE LET s == Max2(Abs(p.x), Abs(p.y)) \div 1000 + 1
             q == Pt(TruncDiv(p.x, s), TruncDiv(p.y, s))
             cx == Isqrt((len * len * q.x * q.x) \div sqmag(q))
             cy == Isqrt((len * len * q.y * q.y) \div sqmag(q))
         IN Pt(IF q.x < 0 THEN -cx ELSE cx, IF q.y < 0 THEN -cy ELSE cy)

(***************************************************************************)
(* Pseudo-random engines.  std::mt19937 and the C library's rand() are     *)
(* deterministic generators with a hidden state; each is modelled by a     *)
(* full-period linear congruential generator over a small state.           *)
(***************************************************************************)
\* std::mt19937 rng(seed) and rng.seed(seed)
MtSeed(s) == s % 64

MtNext(st) == (st * 13 + 7) % 64

\* one draw of std::uniform_real_distribution<float>(a, b): a value in [a, b).
\* The library computes canonical * (b - a) + a with canonical in [0, 1):
\* for b = a that is a, and for b < a (outside the distribution's
\* precondition) a value in (b, a], unless the build asserts a <= b.
UniformDraw(a, b, st) ==
    [v |-> IF b > a THEN a + (MtNext(st) % (b - a))
           ELSE IF b = a THEN a
           ELSE a - (MtNext(st) % (a - b)),
     rng |-> MtNext(st)]

\* one draw of std::bernoulli_distribution(0.5)
BernoulliDraw(st) == [v |-> ((MtNext(st) \div 8) % 2 = 1), rng |-> MtNext(st)]

\* rand(): the state after the call, and the value returned
RandInit == 1

RandNext(st) == (st * 5 + 3) % 16

RandValue(st) == RandNext(st) \div 2

\* point::randomPoint.  The two draws are the arguments of one constructor
\* call, which C++14 leaves indeterminately sequenced: a build evaluates
\* them x first (xfirst) or y first.
randomPoint(bounds, st, xfirst) ==
    IF xfirst
    THEN LET dx == UniformDraw(bounds[1].x, bounds[2].x, st)
             dy == UniformDraw(bounds[1].y, bounds[2].y, dx.rng)
         IN [p |-> Pt(dx.v, dy.v), rng |-> dy.rng]
    ELSE LET dy == UniformDraw(bounds[1].y, bounds[2].y, st)
             dx == UniformDraw(bounds[1].x, bounds[2].x, dy.rng)
         IN [p |-> Pt(dx.v, dy.v), rng |-> dx.rng]

(***************************************************************************)
(* System (system.hpp, src/unnamed/part_003 lines 193-300)                 *)
(***************************************************************************)
\* the window rectangle main hands to everything
Bounds == <<Pt(0, 0), Pt(Width, Height)>>

\* populatePlanets: n planets, each ccw, then position, then mass, drawn
\* from one stream.  The result carries the stream's state after the draws.
RECURSIVE populatePlanets(_, _, _, _, _)
populatePlanets(n, max_mass, bounds, st, xfirst) ==
    IF n = 0 THEN [planets |-> <<>>, rng |-> st]
    ELSE LET rest == populatePlanets(n - 1, max_mass, bounds, st, xfirst)
             c == BernoulliDraw(rest.rng)
             rp == randomPoint(bounds, c.rng, xfirst)
             dm == UniformDraw(0, max_mass, rp.rng)
         IN [planets |-> Append(rest.planets,
                                [pos |-> rp.p, mass |-> dm.v, ccw |-> c.v]),
             rng |-> dm.rng]

\* System::System(n, bounds, rng)
NewSystem(n, bounds, st, xfirst) ==
    LET pp == populatePlanets(n, MassLevels, bounds, st, xfirst)
    IN [sys |-> [bounds |-> bounds, planets |-> pp.planets], rng |-> pp.rng]

\* one planet's term of probeGravity: r.norm() / r.sqmag() * p.mass
GravityTerm(pos, p) ==
    LET r == PtSub(pos, p.pos)
    IN IF r.nan \/ (r.x = 0 /\ r.y = 0) THEN NaNPoint
       ELSE LET d == Isqrt(sqmag(r) * 100) * sqmag(r)
            IN Pt(TruncDiv(r.x * p.mass * 10 * FieldScale, d),
                  TruncDiv(r.y * p.mass * 10 * FieldScale, d))

RECURSIVE GravitySum(_, _, _)
GravitySum(pos, planets, k) ==
    IF k = 0 THEN Pt(0, 0)
    ELSE PtSub(GravitySum(pos, planets, k - 1), GravityTerm(pos, planets[k]))

probeGravity(sys, pos) ==
    PtMul(GravitySum(pos, sys.planets, Len(sys.planets)), GravitationalConstant)

\* one planet's term of probeAngularPotentialGradient
AngularTerm(pos, p) ==
    LET r == PtSub(pos, p.pos)
    IN IF r.nan \/ (r.x = 0 /\ r.y = 0) THEN NaNPoint
       ELSE LET sgn == IF p.ccw THEN 1 ELSE -1
            IN Pt(TruncDiv(r.y * p.mass * sgn * FieldScale, sqmag(r)),
                  TruncDiv(-r.x * p.mass * sgn * FieldScale, sqmag(r)))

RECURSIVE AngularSum(_, _, _)
AngularSum(pos, planets, k) ==
    IF k = 0 THEN Pt(0, 0)
    ELSE PtAdd(AngularSum(pos, planets, k - 1), AngularTerm(pos, planets[k]))

probeAngularPotentialGradient(sys, pos) ==
    AngularSum(pos, sys.planets, Len(sys.planets))

(***************************************************************************)
(* integrator (src/src/integrator.hpp) and glider (src/src/glider.hpp)     *)
(***************************************************************************)
\* stepsize * gradient_func(pos) of gliderStep: the unit vector perpendicular
\* to the total gradient, oriented by ccw, times the step size
EquipotMotion(total_gradient, ccw) ==
    IF total_gradient.nan THEN NaNPoint
    ELSE PtMul(normTimes(Pt(-total_gradient.y, total_gradient.x), Stepsize),
               IF ccw THEN 1 ELSE -1)

GradientFunc(sys, angular_potential_factor, ccw, pos) ==
    EquipotMotion(PtSub(PtNeg(probeGravity(sys, pos)),
                        PtMul(probeAngularPotentialGradient(sys, pos),
                              angular_potential_factor)),
                  ccw)

\* the four stages added up without the division by 6
RungeKuttaSumUndivided(start, k1, k2, k3, k4) ==
    PtAdd(start, PtAdd(PtAdd(k1, PtMul(k2, 2)), PtAdd(PtMul(k3, 2), k4)))

\* integrator::rungeKutta4 with f = gradient_func, stage by stage:
\* k1 = h f(start), k2 = h f(start + k1 / 2), k3 = h f(start + k2 / 2),
\* k4 = h f(start + k3), start + (k1 + 2 k2 + 2 k3 + k4) / 6
RungeKuttaSum(start, k1, k2, k3, k4) ==
    PtAdd(start, PtDiv(PtAdd(PtAdd(k1, PtMul(k2, 2)), PtAdd(PtMul(k3, 2), k4)), 6))

RungeKuttaK4(sys, factor, ccw, start, k1, k2, k3) ==
    RungeKuttaSum(start, k1, k2, k3, GradientFunc(sys, factor, ccw, PtAdd(start, k3)))

RungeKuttaK3(sys, factor, ccw, start, k1, k2) ==
    RungeKuttaK4(sys, factor, ccw, start, k1, k2,
                 GradientFunc(sys, factor, ccw, PtAdd(start, PtDiv(k2, 2))))

RungeKuttaK2(sys, factor, ccw, start, k1) ==
    RungeKuttaK3(sys, factor, ccw, start, k1,
                 GradientFunc(sys, factor, ccw, PtAdd(start, PtDiv(k1, 2))))

rungeKutta4(sys, factor, ccw, start) ==
    RungeKuttaK2(sys, factor, ccw, start, GradientFunc(sys, factor, ccw, start))

gliderStep(start_pos, angular_potential_factor, sys, ccw) ==
    rungeKutta4(sys, angular_potential_factor, ccw, start_pos)

(***************************************************************************)
(* integrator (src/src/integrator.hpp) on any velocity function.  f names  *)
(* the function handed in and Call(f, p) is f(p).  The functions have      *)
(* even components: halving a stage is then exact, as halving a binary     *)
(* float is.                                                               *)
(***************************************************************************)
VelocityFuncs == {"uniform", "rotation", "shear", "singular"}

Call(f, p) ==
    IF p.nan THEN NaNPoint
    ELSE CASE f = "uniform" -> Pt(2, 0)
           [] f = "rotation" -> Pt(-2 * p.y, 2 * p.x)
           [] f = "shear" -> Pt(2 * p.y, 2)
           [] f = "singular" -> IF p.x = 0 /\ p.y = 0 THEN NaNPoint
                                ELSE Pt(2 * p.x, 2 * p.y)

\* stepsize * f(p)
Stage(f, p, stepsize) == PtMul(Call(f, p), stepsize)

\* the argument of the second stage without the halving: start + k1
StageArgFull(start, k) == PtAdd(start, k)

\* start + k1 / 2
StageArg(start, k) == PtAdd(start, PtDiv(k, 2))

explicitEuler(start, f, stepsize) == PtAdd(start, Stage(f, start, stepsize))

midpoint(start, f, stepsize) ==
    PtAdd(start, Stage(f, StageArg(start, Stage(f, start, stepsize)), stepsize))

IntegratorK4(start, f, stepsize, k1, k2, k3) ==
    RungeKuttaSum(start, k1, k2, k3, Stage(f, PtAdd(start, k3), stepsize))

IntegratorK3(start, f, stepsize, k1, k2) ==
    IntegratorK4(start, f, stepsize, k1, k2, Stage(f, StageArg(start, k2), stepsize))

IntegratorK2(start, f, stepsize, k1) ==
    IntegratorK3(start, f, stepsize, k1, Stage(f, StageArg(start, k1), stepsize))

\* integrator::rungeKutta4(start, f, stepsize)
integratorRungeKutta4(start, f, stepsize) ==
    IntegratorK2(start, f, stepsize, Stage(f, start, stepsize))

\* integrator::<method>(start, f, stepsize)
Integrate(method, start, f, stepsize) ==
    CASE method = "explicitEuler" -> explicitEuler(start, f, stepsize)
      [] method = "midpoint" -> midpoint(start, f, stepsize)
      [] method = "rungeKutta4" -> integratorRungeKutta4(start, f, stepsize)

\* the loop test written with <= : one step too many
StepsLeftInclusive(step, max_steps) == step <= max_steps

\* the loop test of generateGliderTrajectory: step < max_steps
StepsLeft(step, max_steps) == step < max_steps

\* sq_last_dist > sq_upper_dist_limit || sq_last_dist < sq_lower_dist_limit;
\* both comparisons are false for a displacement that is not a number
SqDistOutOfRange(sq_last_dist) ==
    \/ sq_last_dist > SqUpperDistLimit
    \/ sq_last_dist * 1000 < SqLowerDistLimitMilli

StepOutOfRange(last_pos, pos) ==
    /\ ~PtSub(pos, last_pos).nan
    /\ SqDistOutOfRange(sqmag(PtSub(pos, last_pos)))

\* one pass of the loop body of generateGliderTrajectory on [pos, points,
\* step, brk]: brk is set when the body leaves the loop by break
\* the body with the push before the test: the position of the stopping step
\* is appended
TrajCheckPushFirst(t, last_pos, pos) ==
    [t EXCEPT !.pos = pos, !.points = Append(t.points, pos),
              !.step = t.step + 1, !.brk = StepOutOfRange(last_pos, pos)]

TrajCheck(t, last_pos, pos) ==
    IF StepOutOfRange(last_pos, pos)
    THEN [t EXCEPT !.pos = pos, !.brk = TRUE]
    ELSE [t EXCEPT !.pos = pos, !.points = Append(t.points, pos),
                   !.step = t.step + 1]

TrajBody(t, sys, spiral_factor, ccw) ==
    TrajCheck(t, t.pos, gliderStep(t.pos, spiral_factor, sys, ccw))

RECURSIVE TrajLoop(_, _, _, _, _)
TrajLoop(t, sys, spiral_factor, max_steps, ccw) ==
    IF t.brk \/ ~StepsLeft(t.step, max_steps) THEN t.points
    ELSE TrajLoop(TrajBody(t, sys, spiral_factor, ccw), sys, spiral_factor,
                  max_steps, ccw)

\* the state before the loop with std::vector<point> points; left empty
TrajStartEmpty(pos) == [pos |-> pos, points |-> <<>>, step |-> 0, brk |-> FALSE]

\* the state before the loop: points {pos}
TrajStart(pos) == [pos |-> pos, points |-> <<pos>>, step |-> 0, brk |-> FALSE]

\* the vertices drawSingleTrajectory builds from the points, one each
Vertices(points, glider_color) ==
    [k \in 1 .. Len(points) |-> [position |-> points[k], color |-> glider_color]]

\* generateGliderTrajectory with the value ccw its call of rand() gave
generateGliderTrajectory(pos, sys, spiral_factor, max_steps, ccw) ==
    TrajLoop(TrajStart(pos), sys, spiral_factor, max_steps, ccw)

(***************************************************************************)
(* Floats that are results: scores, penalties, lengths.                    *)
(***************************************************************************)
FNum(n) == [k |-> "fin", v |-> n]

FNaN == [k |-> "nan", v |-> 0]

\* std::numeric_limits<float>::min(): the smallest positive normal float
FMin == [k |-> "min", v |-> 0]

FAdd(a, b) == IF a.k = "nan" \/ b.k = "nan" THEN FNaN ELSE FNum(a.v + b.v)

\* c * f for an integer constant c: 0 * nan is nan
FScale(c, f) == IF f.k = "nan" THEN FNaN ELSE FNum(c * f.v)

\* twice the value, with min between 0 and 1
FKey(f) == IF f.k = "min" THEN 1 ELSE 2 * f.v

\* a >= b: false when either is not a number
FGe(a, b) == a.k # "nan" /\ b.k # "nan" /\ FKey(a) >= FKey(b)

\* (p - q).mag(), truncated
PtDist(p, q) == IF p.nan \/ q.nan THEN FNaN ELSE FNum(Isqrt(sqmag(PtSub(p, q))))

(***************************************************************************)
(* scorePath (src/src/glider.hpp)                                          *)
(***************************************************************************)
\* the test "only count points inside bounds" fails: every comparison with
\* a coordinate that is not a number is false
OutOfBounds(p, bounds) ==
    /\ ~p.nan
    /\ \/ p.x < bounds[1].x
       \/ p.y < bounds[1].y
       \/ p.x > bounds[2].x
       \/ p.y > bounds[2].y

\* the planet loop at a path point p: 0-based id of the first planet at
\* least squared distance, 0 when no distance compares below FLT_MAX
RECURSIVE ClosestFrom(_, _, _, _)
ClosestFrom(planets, p, k, best) ==
    IF k > Len(planets) THEN best
    ELSE LET r == PtSub(planets[k].pos, p)
         IN IF ~r.nan /\ (best = 0 \/ sqmag(r) < sqmag(PtSub(planets[best].pos, p)))
            THEN ClosestFrom(planets, p, k + 1, k)
            ELSE ClosestFrom(planets, p, k + 1, best)

NewClosestPlanet(sys, p) ==
    LET b == ClosestFrom(sys.planets, p, 1, 0) IN IF b = 0 THEN 0 ELSE b - 1

\* the margin taken on the distances instead: 1.2 |r_new| < |r_current|
SwitchMarginInDistance(r_new, r_current) ==
    ~r_new.nan /\ ~r_current.nan /\ sqmag(r_new) * 144 < sqmag(r_current) * 100

\* r_new.sqmag() * 1.2f < r_current.sqmag().  On squared distances below
\* 2^21 the float comparison agrees with 12 * new < 10 * current.
SwitchMargin(r_new, r_current) ==
    ~r_new.nan /\ ~r_current.nan /\ sqmag(r_new) * 12 < sqmag(r_current) * 10

\* r.sqmag() < 100.f
Crashed(r) == ~r.nan /\ sqmag(r) < CrashSqRadius

\* the state before the loop of scorePath (i is the loop index, 0-based)
ScoreStart ==
    [i |-> 1, path_length |-> FNum(0), planet_switches |-> 0,
     penalty |-> 0, current_closest_planet |-> 0]

\* one pass of the loop body at path[i], for a system with a planet
\* the offset of planet id (0-based) from p
PlanetOffset(sys, id, p) == PtSub(sys.planets[id + 1].pos, p)

\* if (new_closest_planet != current_closest_planet) and the margin holds
CommitsSwitch(sys, p, current_closest_planet, new_closest_planet) ==
    /\ new_closest_planet # current_closest_planet
    /\ SwitchMargin(PlanetOffset(sys, new_closest_planet, p),
                    PlanetOffset(sys, current_closest_planet, p))

\* the crash test made against the planet tracked before the switch
ScoreTrackCrashFirst(s, sys, p, len, switch, cur) ==
    [i |-> s.i + 1,
     path_length |-> len,
     planet_switches |-> s.planet_switches + (IF switch THEN 1 ELSE 0),
     penalty |-> s.penalty
                 + (IF Crashed(PlanetOffset(sys, s.current_closest_planet, p))
                    THEN CrashPenalty ELSE 0),
     current_closest_planet |-> cur]

\* the in-bounds part of the body, after the switch decision
ScoreTrack(s, sys, p, len, switch, cur) ==
    [i |-> s.i + 1,
     path_length |-> len,
     planet_switches |-> s.planet_switches + (IF switch THEN 1 ELSE 0),
     penalty |-> s.penalty
                 + (IF Crashed(PlanetOffset(sys, cur, p)) THEN CrashPenalty ELSE 0),
     current_closest_planet |-> cur]

ScoreSwitch(s, sys, p, len, new_closest_planet, switch) ==
    ScoreTrack(s, sys, p, len, switch,
               IF switch THEN new_closest_planet ELSE s.current_closest_planet)

ScoreInBounds(s, sys, p, len, new_closest_planet) ==
    ScoreSwitch(s, sys, p, len, new_closest_planet,
                CommitsSwitch(sys, p, s.current_closest_planet, new_closest_planet))

\* the 0-based indices at which the body reads system.planets at point p:
\* every id of the planet loop, both ids where they differ, and the id
\* tracked after the switch decision
PlanetReads(s, sys, p) ==
    IF OutOfBounds(p, sys.bounds) THEN {}
    ELSE (0 .. Len(sys.planets) - 1)
         \cup (IF NewClosestPlanet(sys, p) # s.current_closest_planet
               THEN {s.current_closest_planet, NewClosestPlanet(sys, p)} ELSE {})
         \cup {IF Len(sys.planets) > 0
                  /\ CommitsSwitch(sys, p, s.current_closest_planet,
                                   NewClosestPlanet(sys, p))
               THEN NewClosestPlanet(sys, p) ELSE s.current_closest_planet}

ReadsInRange(s, sys, p) == \A id \in PlanetReads(s, sys, p) : id < Len(sys.planets)

ScoreBody(s, sys, bounds, path) ==
    IF OutOfBounds(path[s.i + 1], bounds)
    THEN [s EXCEPT !.i = s.i + 1, !.penalty = s.penalty + OobPenalty]
    ELSE ScoreInBounds(s, sys, path[s.i + 1],
                       FAdd(s.path_length, PtDist(path[s.i + 1], path[s.i])),
                       NewClosestPlanet(sys, path[s.i + 1]))

\* the weight of path_length in the score
PathLengthWeight == 0

\* score = 0 * path_length + planet_switches * 100.f - penalty
ScoreOf(s) ==
    FAdd(FScale(PathLengthWeight, s.path_length),
         FNum(s.planet_switches * SwitchBonus - s.penalty))

RECURSIVE ScoreLoop(_, _, _, _)
ScoreLoop(s, sys, bounds, path) ==
    IF s.i < Len(path) THEN ScoreLoop(ScoreBody(s, sys, bounds, path), sys, bounds, path)
    ELSE ScoreOf(s)

scorePath(sys, bounds, path) == ScoreLoop(ScoreStart, sys, bounds, path)

(***************************************************************************)
(* findNicePath (src/src/glider.hpp)                                       *)
(***************************************************************************)
\* float candidate_score = std::numeric_limits<float>::min()
InitialCandidateScore == FMin

\* the state before the loop: rng(seed + 2000), point candidate
FindStart(sd, rand) ==
    [rng |-> MtSeed(sd + 2000), candidate_score |-> InitialCandidateScore,
     candidate |-> Pt(0, 0), i |-> 0, rand |-> rand]

\* what one pass of the loop body samples and scores; rand is the state of
\* the C library's generator before the pass
Scored(rp, sys, bounds, ccw, trajectory) ==
    [p |-> rp.p, rng |-> rp.rng, ccw |-> ccw, trajectory |-> trajectory,
     score |-> scorePath(sys, bounds, trajectory)]

Sampled(rp, sys, spiral_factor, max_steps, bounds, ccw) ==
    Scored(rp, sys, bounds, ccw,
           generateGliderTrajectory(rp.p, sys, spiral_factor, max_steps, ccw))

FindSample(f, sys, spiral_factor, max_steps, bounds, xf) ==
    Sampled(randomPoint(bounds, f.rng, xf), sys, spiral_factor, max_steps,
            bounds, RandValue(f.rand) % 2 = 1)

\* if (score >= candidate_score)
Accepts(score, candidate_score) == FGe(score, candidate_score)

\* one pass of the loop body
FindUpdate(f, smp) ==
    [rng |-> smp.rng,
     candidate_score |-> IF Accepts(smp.score, f.candidate_score)
                         THEN smp.score ELSE f.candidate_score,
     candidate |-> IF Accepts(smp.score, f.candidate_score)
                   THEN smp.p ELSE f.candidate,
     i |-> f.i + 1,
     rand |-> RandNext(f.rand)]

FindBody(f, sys, spiral_factor, max_steps, bounds, xf) ==
    FindUpdate(f, FindSample(f, sys, spiral_factor, max_steps, bounds, xf))

RECURSIVE FindLoop(_, _, _, _, _, _)
FindLoop(f, sys, spiral_factor, max_steps, bounds, xf) ==
    IF f.i < MaxAttempts
    THEN FindLoop(FindBody(f, sys, spiral_factor, max_steps, bounds, xf),
                  sys, spiral_factor, max_steps, bounds, xf)
    ELSE f

\* findNicePath: the locals at the return (candidate is the point returned,
\* rand the C library generator's state)
findNicePath(sys, spiral_factor, max_steps, bounds, sd, rand, xf) ==
    FindLoop(FindStart(sd, rand), sys, spiral_factor, max_steps, bounds, xf)

(***************************************************************************)
(* The older glider (glider.hpp as kept in src/unnamed/part_003, lines     *)
(* 1-106): a midpoint step corrected toward a desired potential.           *)
(* Potentials and weighted angles are fixed-point numbers on FieldScale,   *)
(* the scale of the field strengths.                                       *)
(***************************************************************************)
\* minus infinity: the potential at the position of a planet with a mass
FNegInf == [k |-> "ninf", v |-> 0]

\* a + b for b a number or not a number
FSum(a, b) ==
    IF a.k = "nan" \/ b.k = "nan" THEN FNaN
    ELSE IF a.k = "ninf" \/ b.k = "ninf" THEN FNegInf
    ELSE FNum(a.v + b.v)

\* one planet's term of probePotential: - p.mass / (pos - p.pos).mag()
PotentialTerm(pos, p) ==
    LET r == PtSub(pos, p.pos)
    IN IF r.nan THEN FNaN
       ELSE IF r.x = 0 /\ r.y = 0 THEN (IF p.mass = 0 THEN FNaN ELSE FNegInf)
       ELSE FNum(-TruncDiv(p.mass * 10 * FieldScale, Isqrt(sqmag(r) * 100)))

RECURSIVE PotentialSum(_, _, _)
PotentialSum(pos, planets, k) ==
    IF k = 0 THEN FNum(0)
    ELSE FSum(PotentialSum(pos, planets, k - 1), PotentialTerm(pos, planets[k]))

\* out * gravitational_constant
PotentialScaled(out) ==
    IF out.k = "fin" THEN FNum(out.v * GravitationalConstant) ELSE out

probePotential(sys, pos) ==
    PotentialScaled(PotentialSum(pos, sys.planets, Len(sys.planets)))

\* pi on FieldScale
PiScaled == 3 * FieldScale + (14159 * FieldScale) \div 100000

\* atan of a / b for 0 <= a <= b, b > 0, on FieldScale:
\* t (pi/4 + 0.273 (1 - t)) with t = a / b in thousandths
AtanUnit(a, b) ==
    LET t == (a * 1000) \div b
    IN (t * ((PiScaled \div 4)
              + ((((273 * FieldScale) \div 1000) * (1000 - t)) \div 1000)))
        \div 1000

\* atan2(y, x) for x >= 0, y >= 0, not both 0
AtanQuadrant(y, x) ==
    IF y <= x THEN AtanUnit(y, x) ELSE (PiScaled \div 2) - AtanUnit(x, y)

\* atan2(y, x) on FieldScale, in -pi .. pi; atan2(0, 0) is 0
Atan2(y, x) ==
    IF x = 0 /\ y = 0 THEN 0
    ELSE LET q == AtanQuadrant(Abs(y), Abs(x))
             h == IF x < 0 THEN PiScaled - q ELSE q
         IN IF y < 0 THEN -h ELSE h

\* if (diff > M_PI) diff -= 2*M_PI; else if (diff < -M_PI) diff += 2*M_PI;
WrapAngle(diff) ==
    IF diff > PiScaled THEN diff - 2 * PiScaled
    ELSE IF diff < -PiScaled THEN diff + 2 * PiScaled
    ELSE diff

\* one planet's term of probeWeightedAngleDiff
WeightedAngleTerm(a, b, p) ==
    LET r_a == PtSub(a, p.pos)
        r_b == PtSub(b, p.pos)
    IN IF r_a.nan \/ r_b.nan THEN FNaN
       ELSE FNum(WrapAngle(Atan2(r_b.y, r_b.x) - Atan2(r_a.y, r_a.x))
                 * p.mass * (IF p.ccw THEN 1 ELSE -1))

RECURSIVE WeightedAngleSum(_, _, _, _)
WeightedAngleSum(a, b, planets, k) ==
    IF k = 0 THEN FNum(0)
    ELSE FSum(WeightedAngleSum(a, b, planets, k - 1), WeightedAngleTerm(a, b, planets[k]))

probeWeightedAngleDiff(sys, a, b) == WeightedAngleSum(a, b, sys.planets, Len(sys.planets))

\* (gravity.y, -gravity.x) of a normalized gravity, times a length
LegacyMotion(gravity, len) ==
    IF gravity.nan THEN NaNPoint ELSE normTimes(Pt(gravity.y, -gravity.x), len)

\* new_potential - desired_potential; a difference that is not finite is
\* kept as not a number, the positions computed from it being not finite
LegacyDiff(new_potential, desired_potential) ==
    IF new_potential.k = "fin" /\ desired_potential.k = "fin"
    THEN FNum(new_potential.v - desired_potential.v)
    ELSE FNaN

\* diff * gravity / gravity.sqmag(), each component truncated.  Gravity is
\* scaled down first, as the float exponent does; an offset longer than
\* FarOffset is given that length.
LegacyOffset(diff, gravity) ==
    IF diff.k # "fin" \/ gravity.nan \/ (gravity.x = 0 /\ gravity.y = 0) THEN NaNPoint
    ELSE LET s == Max2(Abs(gravity.x), Abs(gravity.y)) \div 1000 + 1
             gq == Pt(TruncDiv(gravity.x, s), TruncDiv(gravity.y, s))
             dq == TruncDiv(diff.v, s)
         IN IF Abs(dq) >= FarOffset * (Abs(gq.x) + Abs(gq.y))
            THEN PtMul(normTimes(gq, 10),
                       (IF dq < 0 THEN -1 ELSE 1) * (FarOffset \div 10))
            ELSE Pt(TruncDiv(dq * gq.x, sqmag(gq)), TruncDiv(dq * gq.y, sqmag(gq)))

\* corrected_pos, from the gravity at corrected_pos_midpoint
LegacyCorrected(sys, new_pos_initial, diff, corrected_pos_midpoint) ==
    PtAdd(new_pos_initial, LegacyOffset(diff, probeGravity(sys, corrected_pos_midpoint)))

\* the correction of new_pos_initial toward the desired potential
LegacyCorrect(sys, new_pos_initial, diff) ==
    LegacyCorrected(sys, new_pos_initial, diff,
                    PtAdd(new_pos_initial,
                          PtDiv(LegacyOffset(diff, probeGravity(sys, new_pos_initial)), 2)))

LegacyFromInitial(sys, new_pos_initial, desired_potential) ==
    LegacyCorrect(sys, new_pos_initial,
                  LegacyDiff(probePotential(sys, new_pos_initial), desired_potential))

\* the midpoint step: motion from the gravity at pos + motion_half
LegacyMidpoint(sys, pos, motion_half, desired_potential, ccw) ==
    LegacyFromInitial(sys,
                      PtAdd(pos, PtMul(LegacyMotion(probeGravity(sys, PtAdd(pos, motion_half)),
                                                    LegacyStepsize),
                                       IF ccw THEN -1 ELSE 1)),
                      desired_potential)

\* gliderStep(pos, desired_potential, system, ccw) of the older glider
legacyGliderStep(pos, desired_potential, sys, ccw) ==
    LegacyMidpoint(sys, pos, LegacyMotion(probeGravity(sys, pos), LegacyStepsize \div 2),
                   desired_potential, ccw)

\* the desired potential left as it is
LegacyDesiredKept(desired_potential, weighted_angle_diff, spiral_factor) ==
    desired_potential

\* if (spiral_factor != 0.f) desired_potential += weighted_angle_diff * spiral_factor
LegacyDesired(desired_potential, weighted_angle_diff, spiral_factor) ==
    IF spiral_factor # 0 THEN FSum(desired_potential, FScale(spiral_factor, weighted_angle_diff))
    ELSE desired_potential

\* the state before the loop of the older generateGliderTrajectory
LegacyStart(start_pos, sys, max_steps) ==
    [last_pos |-> start_pos, desired_potential |-> probePotential(sys, start_pos),
     sq_last_dist |-> FNum(InitialSqLastDist), points |-> <<>>, steps |-> max_steps]

\* sq_last_dist > sq_lower_dist_limit && sq_last_dist < sq_upper_dist_limit
LegacyInRange(sq_last_dist) ==
    /\ sq_last_dist.k = "fin"
    /\ sq_last_dist.v * 1000 > SqLowerDistLimitMilli
    /\ sq_last_dist.v < SqUpperDistLimit

\* the loop test, --steps included: steps is decremented when the two
\* comparisons hold, and the loop goes on when it is then not 0
LegacyTested(t) ==
    IF LegacyInRange(t.sq_last_dist) THEN [t EXCEPT !.steps = t.steps - 1] ELSE t

LegacyContinues(t) == LegacyInRange(t.sq_last_dist) /\ t.steps - 1 # 0

\* (new_pos - last_pos).sqmag()
LegacySqDist(new_pos, last_pos) ==
    IF PtSub(new_pos, last_pos).nan THEN FNaN ELSE FNum(sqmag(PtSub(new_pos, last_pos)))

\* the loop body after the step
LegacyAdvance(t, sys, spiral_factor, new_pos) ==
    [last_pos |-> new_pos,
     desired_potential |-> LegacyDesired(t.desired_potential,
                                         probeWeightedAngleDiff(sys, t.last_pos, new_pos),
                                         spiral_factor),
     sq_last_dist |-> LegacySqDist(new_pos, t.last_pos),
     points |-> Append(t.points, new_pos),
     steps |-> t.steps]

\* one pass of the loop body, the test having passed
LegacyBody(t, sys, spiral_factor) ==
    LegacyAdvance(t, sys, spiral_factor,
                  legacyGliderStep(t.last_pos, t.desired_potential, sys, FALSE))

(***************************************************************************)
(* State.                                                                  *)
(***************************************************************************)
VARIABLES
    \* the program (src/src/glider.cpp): globals and the locals of main
    seed, rng, system, display, redraw, draw_nice_path, nice_path_seed,
    win_open, screenshots,
    \* the main being followed and its position in the event loop
    m_file, m_pc,
    \* history: the key the last step handled, if it handled R, Q or
    \* Escape, and whether N was pressed since the last redraw
    last_key, n_pressed,
    \* the state of the C library's rand(), and the build's evaluation order
    \* of the two draws of randomPoint
    rand_state, xfirst,
    \* history: the seed the current system was constructed from
    built_seed,
    \* one call of generateGliderTrajectory: arguments, locals, position
    g_pc, g_start, g_spiral, g_max_steps, g_ccw, g_t,
    \* one call of the older generateGliderTrajectory, with the same
    \* arguments: locals, position; history: the desired potential handed
    \* to each gliderStep
    l_pc, l_t, l_used,
    \* one call of scorePath: argument, locals, result, position; history:
    \* the passes that took the out-of-bounds branch, those that added the
    \* crash penalty, the locals as they were before the last pass, and the
    \* indices at which the last pass read system.planets
    s_pc, s_path, s_s, s_score, s_oob, s_crash, s_prev, s_reads,
    \* calls of findNicePath: argument, locals, position; history: the
    \* samples of the running call, the trajectory scored for the running
    \* best, the points returned so far and the trajectory replayed last
    f_pc, f_seed, f_f, f_samples, f_best, f_results, f_replay,
    \* one construction of a System: arguments, the generator handed in, the
    \* planet list, the loop's index, position; history: the draws made
    \* from the bounds
    c_pc, c_n, c_bounds, c_rng, c_planets, c_i, c_draws,
    \* calls of the integrator's steppers on one triple of arguments;
    \* history: the stepper and the result of each call
    i_start, i_f, i_h, i_out

mainVars == <<seed, rng, system, display, redraw, draw_nice_path, nice_path_seed,
              win_open, screenshots, built_seed, m_file, m_pc, last_key, n_pressed>>

envVars == <<rand_state, xfirst>>

legacyVars == <<l_pc, l_t, l_used>>

trajVars == <<g_pc, g_start, g_spiral, g_max_steps, g_ccw, g_t, legacyVars>>

scoreVars == <<s_pc, s_path, s_s, s_score, s_oob, s_crash, s_prev, s_reads>>

findVars == <<f_pc, f_seed, f_f, f_samples, f_best, f_results, f_replay>>

buildVars == <<c_pc, c_n, c_bounds, c_rng, c_planets, c_i, c_draws>>

integVars == <<i_start, i_f, i_h, i_out>>

vars == <<mainVars, envVars, trajVars, scoreVars, findVars, buildVars, integVars>>

\* no call of the integrator is being followed
IntegIdle == i_start = Pt(0, 0) /\ i_f = "uniform" /\ i_h = 1 /\ i_out = <<>>

\* no construction of a System is being followed
BuildIdle ==
    /\ c_pc = "idle" /\ c_n = 0 /\ c_bounds = Bounds /\ c_rng = 0
    /\ c_planets = <<>> /\ c_i = 0 /\ c_draws = 0

\* no call of the older generateGliderTrajectory is being followed
LegacyIdle ==
    /\ l_pc = "idle" /\ l_used = <<>>
    /\ l_t = [last_pos |-> Pt(0, 0), desired_potential |-> FNum(0),
              sq_last_dist |-> FNum(InitialSqLastDist), points |-> <<>>, steps |-> 0]

\* no call of generateGliderTrajectory is being followed
TrajIdle ==
    /\ g_pc = "idle" /\ g_start = Pt(0, 0) /\ g_spiral = 0 /\ g_max_steps = 0
    /\ g_ccw = FALSE /\ g_t = TrajStart(Pt(0, 0))
    /\ LegacyIdle

\* no call of scorePath is being followed
ScoreIdle ==
    /\ s_pc = "idle" /\ s_path = <<>> /\ s_s = ScoreStart /\ s_score = FNum(0)
    /\ s_oob = 0 /\ s_crash = 0 /\ s_prev = ScoreStart /\ s_reads = {}

\* no call of findNicePath is being followed
FindIdle ==
    /\ f_pc = "idle" /\ f_seed = 0 /\ f_f = FindStart(0, 0) /\ f_samples = <<>>
    /\ f_best = <<>> /\ f_results = <<>> /\ f_replay = <<>>

\* the event loop is not being followed
MainIdle ==
    /\ seed = 0 /\ rng = 0 /\ display = "trajectories" /\ redraw = FALSE
    /\ draw_nice_path = FALSE /\ nice_path_seed = 0 /\ win_open = FALSE
    /\ screenshots = [n \in {} |-> 0] /\ built_seed = 0
    /\ m_file = "src/src/glider.cpp" /\ m_pc = "idle" /\ last_key = "none"
    /\ n_pressed = FALSE

\* the systems a generator seeded in -MaxSeed .. MaxSeed constructs
SeededSystems(n, xf) ==
    {NewSystem(n, Bounds, MtSeed(sd), xf).sys : sd \in -MaxSeed .. MaxSeed}

(***************************************************************************)
(* generateGliderTrajectory, pass by pass.  The inputs: a system of 0 to   *)
(* NrPlanets planets, a start on a grid of the window or on a planet, the  *)
(* spiral factor 0 or the program's, 0 to MaxSteps steps, any state of     *)
(* the C library's generator.                                              *)
(***************************************************************************)
StartGrid == {Pt(gx * 10, gy * 10) : gx \in 0 .. Width \div 10, gy \in 0 .. Height \div 10}

\* the points around the middle of the first two planets, where the field
\* has a saddle: a glider started there stalls, at once or after a step
StartSaddle(sys) ==
    IF Len(sys.planets) < 2 THEN {}
    ELSE LET mid == PtDiv(PtAdd(sys.planets[1].pos, sys.planets[2].pos), 2)
         IN {Pt(mid.x + ox, mid.y + oy) : ox \in -3 .. 3, oy \in -6 .. 6}

StartPoints(sys) ==
    StartGrid \cup {sys.planets[k].pos : k \in 1 .. Len(sys.planets)}
              \cup StartSaddle(sys)

TrajInit ==
    /\ xfirst \in BOOLEAN
    /\ system \in UNION {SeededSystems(n, xfirst) : n \in 0 .. NrPlanets}
    /\ g_start \in StartPoints(system)
    /\ g_spiral \in {0, SpiralFactor}
    /\ g_max_steps \in 0 .. MaxSteps
    /\ rand_state \in {RandInit, RandNext(RandInit)}
    /\ g_pc = "call" /\ g_ccw = FALSE /\ g_t = TrajStart(Pt(0, 0))
    /\ LegacyIdle
    /\ IntegIdle /\ BuildIdle /\ MainIdle /\ ScoreIdle /\ FindIdle

\* std::vector<point> points {pos}; const bool ccw = rand()&1;
TrajCall ==
    /\ g_pc = "call"
    /\ g_t' = TrajStart(g_start)
    /\ g_ccw' = (RandValue(rand_state) % 2 = 1)
    /\ rand_state' = RandNext(rand_state)
    /\ g_pc' = "loop"
    /\ UNCHANGED <<integVars, buildVars, g_start, g_spiral, g_max_steps, legacyVars, xfirst, mainVars,
                   scoreVars, findVars>>

\* one pass of the loop body
TrajStep ==
    /\ g_pc = "loop" /\ ~g_t.brk /\ StepsLeft(g_t.step, g_max_steps)
    /\ g_t' = TrajBody(g_t, system, g_spiral, g_ccw)
    /\ UNCHANGED <<integVars, buildVars, g_pc, g_start, g_spiral, g_max_steps, g_ccw, legacyVars, envVars,
                   mainVars, scoreVars, findVars>>

\* return points;
TrajReturn ==
    /\ g_pc = "loop" /\ (g_t.brk \/ ~StepsLeft(g_t.step, g_max_steps))
    /\ g_pc' = "done"
    /\ UNCHANGED <<integVars, buildVars, g_start, g_spiral, g_max_steps, g_ccw, g_t, legacyVars, envVars,
                   mainVars, scoreVars, findVars>>

TrajNext == TrajCall \/ TrajStep \/ TrajReturn

SpecTraj == TrajInit /\ [][TrajNext]_vars

(***************************************************************************)
(* The two generateGliderTrajectory of the repository on the same inputs:  *)
(* a run follows either the older one (src/unnamed/part_003), pass by      *)
(* pass, or the one of src/src/glider.hpp.  A call of the older one is     *)
(* followed for MaxLegacyRun steps at most.                                *)
(***************************************************************************)
LegacyInit ==
    /\ xfirst \in BOOLEAN
    /\ system \in UNION {SeededSystems(n, xfirst) : n \in 0 .. NrPlanets}
    /\ g_start \in StartPoints(system)
    /\ g_spiral \in {0, SpiralFactor}
    /\ g_max_steps \in 0 .. MaxSteps
    /\ rand_state = RandInit
    /\ \/ g_pc = "call" /\ l_pc = "idle"
       \/ g_pc = "idle" /\ l_pc = "call"
    /\ g_ccw = FALSE /\ g_t = TrajStart(Pt(0, 0))
    /\ l_used = <<>> /\ l_t = LegacyStart(Pt(0, 0), [bounds |-> Bounds, planets |-> <<>>], 0)
    /\ IntegIdle /\ BuildIdle /\ MainIdle /\ ScoreIdle /\ FindIdle

\* the declarations before the loop
LegacyCall ==
    /\ l_pc = "call"
    /\ l_t' = LegacyStart(g_start, system, g_max_steps)
    /\ l_pc' = "loop"
    /\ UNCHANGED <<integVars, buildVars, l_used, g_pc, g_start, g_spiral, g_max_steps, g_ccw, g_t, envVars,
                   mainVars, scoreVars, findVars>>

\* the loop test passes, and one pass of the loop body
LegacyStep ==
    /\ l_pc = "loop" /\ LegacyContinues(l_t)
    /\ Len(l_t.points) < MaxLegacyRun
    /\ l_used' = Append(l_used, l_t.desired_potential)
    /\ l_t' = LegacyBody(LegacyTested(l_t), system, g_spiral)
    /\ UNCHANGED <<integVars, buildVars, l_pc, g_pc, g_start, g_spiral, g_max_steps, g_ccw, g_t, envVars,
                   mainVars, scoreVars, findVars>>

\* the loop test fails; return points;
LegacyReturn ==
    /\ l_pc = "loop" /\ ~LegacyContinues(l_t)
    /\ l_t' = LegacyTested(l_t)
    /\ l_pc' = "done"
    /\ UNCHANGED <<integVars, buildVars, l_used, g_pc, g_start, g_spiral, g_max_steps, g_ccw, g_t, envVars,
                   mainVars, scoreVars, findVars>>

LegacyNext ==
    \/ LegacyCall
    \/ LegacyStep
    \/ LegacyReturn
    \/ TrajCall
    \/ TrajStep
    \/ TrajReturn

SpecLegacy == LegacyInit /\ [][LegacyNext]_vars

(***************************************************************************)
(* scorePath, pass by pass.  The inputs: a system of one or two planets    *)
(* and every path of at most MaxPathLen points, each outside the window,   *)
(* near a planet, on a planet's disc of radius 10, between the planets     *)
(* (just off the boundary of their zones and a little further), or not a   *)
(* number.                                                                 *)
(***************************************************************************)
PlanetAt(p) == [pos |-> p, mass |-> 1, ccw |-> TRUE]

ScoreSystems ==
    {[bounds |-> Bounds, planets |-> ps] :
        ps \in {<<PlanetAt(Pt(10, 15))>>,
                <<PlanetAt(Pt(10, 15)), PlanetAt(Pt(30, 15))>>,
                <<PlanetAt(Pt(30, 15)), PlanetAt(Pt(10, 15))>>}}

PathPoints ==
    {Pt(-5, 15), Pt(10, 27), Pt(10, 10), Pt(30, 27), Pt(19, 27), Pt(18, 27), NaNPoint}

ScoreInit ==
    /\ system \in ScoreSystems
    /\ s_path \in UNION {[1 .. n -> PathPoints] : n \in 0 .. MaxPathLen}
    /\ s_pc = "call" /\ s_s = ScoreStart /\ s_score = FNum(0)
    /\ s_oob = 0 /\ s_crash = 0 /\ s_prev = ScoreStart /\ s_reads = {}
    /\ rand_state = RandInit /\ xfirst = TRUE
    /\ IntegIdle /\ BuildIdle /\ MainIdle /\ TrajIdle /\ FindIdle

\* the declarations before the loop
ScoreCall ==
    /\ s_pc = "call"
    /\ s_s' = ScoreStart
    /\ s_prev' = ScoreStart
    /\ s_pc' = "loop"
    /\ UNCHANGED <<integVars, buildVars, s_path, s_score, s_oob, s_crash, s_reads, envVars, mainVars,
                   trajVars, findVars>>

\* one pass of the loop body, all of whose reads of system.planets are
\* within the list
ScoreStep ==
    /\ s_pc = "loop" /\ s_s.i < Len(s_path)
    /\ ReadsInRange(s_s, system, s_path[s_s.i + 1])
    /\ s_s' = ScoreBody(s_s, system, system.bounds, s_path)
    /\ s_prev' = s_s
    /\ s_reads' = PlanetReads(s_s, system, s_path[s_s.i + 1])
    /\ s_oob' = s_oob + (IF OutOfBounds(s_path[s_s.i + 1], system.bounds) THEN 1 ELSE 0)
    /\ s_crash' = s_crash + (IF s_s'.penalty - s_s.penalty = CrashPenalty THEN 1 ELSE 0)
    /\ UNCHANGED <<integVars, buildVars, s_pc, s_path, s_score, envVars, mainVars, trajVars, findVars>>

\* const float score = ...; return score;
ScoreReturn ==
    /\ s_pc = "loop" /\ ~(s_s.i < Len(s_path))
    /\ s_score' = ScoreOf(s_s)
    /\ s_pc' = "done"
    /\ UNCHANGED <<integVars, buildVars, s_path, s_s, s_oob, s_crash, s_prev, s_reads, envVars,
                   mainVars, trajVars, findVars>>

ScoreNext == ScoreCall \/ ScoreStep \/ ScoreReturn

SpecScore == ScoreInit /\ [][ScoreNext]_vars

(***************************************************************************)
(* scorePath on a system that may have no planet.  A pass that reads       *)
(* system.planets beyond the list has undefined behaviour: the read        *)
(* faults, or it yields whatever lies there and the pass goes on.          *)
(***************************************************************************)
ReadsInit ==
    /\ system \in ScoreSystems \cup {[bounds |-> Bounds, planets |-> <<>>]}
    /\ s_path \in UNION {[1 .. n -> PathPoints] : n \in 0 .. MaxPathLen}
    /\ s_pc = "call" /\ s_s = ScoreStart /\ s_score = FNum(0)
    /\ s_oob = 0 /\ s_crash = 0 /\ s_prev = ScoreStart /\ s_reads = {}
    /\ rand_state = RandInit /\ xfirst = TRUE
    /\ IntegIdle /\ BuildIdle /\ MainIdle /\ TrajIdle /\ FindIdle

\* what a read beyond the list can yield
WildPlanets == {PlanetAt(Pt(10, 15)), PlanetAt(Pt(30, 27)), PlanetAt(NaNPoint)}

\* a pass at an in-bounds point on a system without planets: the planet
\* loop does not run, the two ids are 0 and equal, and the crash test reads
\* system.planets[0]
ScoreWildRead ==
    /\ s_pc = "loop" /\ s_s.i < Len(s_path)
    /\ ~ReadsInRange(s_s, system, s_path[s_s.i + 1])
    /\ \E wild \in WildPlanets :
          s_s' = ScoreTrack(s_s, [system EXCEPT !.planets = <<wild>>],
                            s_path[s_s.i + 1],
                            FAdd(s_s.path_length,
                                 PtDist(s_path[s_s.i + 1], s_path[s_s.i])),
                            FALSE, s_s.current_closest_planet)
    /\ s_prev' = s_s
    /\ s_reads' = PlanetReads(s_s, system, s_path[s_s.i + 1])
    /\ s_crash' = s_crash + (IF s_s'.penalty - s_s.penalty = CrashPenalty THEN 1 ELSE 0)
    /\ UNCHANGED <<integVars, integVars, buildVars, s_pc, s_path, s_score, s_oob, envVars, mainVars, trajVars,
                   findVars>>

\* the same pass when the read faults: the program is killed
ScoreFault ==
    /\ s_pc = "loop" /\ s_s.i < Len(s_path)
    /\ ~ReadsInRange(s_s, system, s_path[s_s.i + 1])
    /\ s_pc' = "fault"
    /\ s_reads' = PlanetReads(s_s, system, s_path[s_s.i + 1])
    /\ UNCHANGED <<integVars, integVars, buildVars, s_path, s_s, s_score, s_oob, s_crash, s_prev, envVars,
                   mainVars, trajVars, findVars>>

ReadsNext == ScoreCall \/ ScoreStep \/ ScoreReturn \/ ScoreWildRead \/ ScoreFault

SpecReads == ReadsInit /\ [][ReadsNext]_vars

(***************************************************************************)
(* findNicePath, pass by pass, as main calls it: on a system of NrPlanets  *)
(* planets built from a seed, with the program's spiral factor and step    *)
(* bound, the window as bounds and a nice-path seed.  The search runs      *)
(* twice with the same arguments; main replays each returned point through *)
(* drawSingleTrajectory, and other trajectories are generated in between.  *)
(***************************************************************************)
SearchInit ==
    /\ xfirst \in BOOLEAN
    /\ system \in SeededSystems(NrPlanets, xfirst)
    /\ f_seed \in InitialNicePathSeed - MaxNiceSeed .. InitialNicePathSeed + MaxNiceSeed
    /\ rand_state = RandInit
    /\ f_pc = "idle" /\ f_f = FindStart(0, 0) /\ f_samples = <<>>
    /\ f_best = <<>> /\ f_results = <<>> /\ f_replay = <<>>
    /\ IntegIdle /\ BuildIdle /\ MainIdle /\ TrajIdle /\ ScoreIdle

\* some other call of generateGliderTrajectory (a drawn glider, a click)
OtherTrajectory ==
    /\ f_pc = "idle"
    /\ rand_state' = RandNext(rand_state)
    /\ UNCHANGED <<integVars, buildVars, xfirst, findVars, mainVars, trajVars, scoreVars>>

\* the declarations before the loop
FindCall ==
    /\ f_pc = "idle" /\ Len(f_results) < 2
    /\ f_f' = FindStart(f_seed, rand_state)
    /\ f_samples' = <<>>
    /\ f_best' = <<>>
    /\ f_pc' = "loop"
    /\ UNCHANGED <<integVars, buildVars, f_seed, f_results, f_replay, envVars, mainVars, trajVars, scoreVars>>

\* one pass of the loop body
FindStep ==
    /\ f_pc = "loop" /\ f_f.i < MaxAttempts
    /\ f_samples' = Append(f_samples, FindSample(f_f, system, SpiralFactor, MaxSteps,
                                                 system.bounds, xfirst))
    /\ f_best' = IF Accepts(f_samples'[Len(f_samples')].score, f_f.candidate_score)
                 THEN f_samples'[Len(f_samples')].trajectory ELSE f_best
    /\ f_f' = FindBody(f_f, system, SpiralFactor, MaxSteps, system.bounds, xfirst)
    /\ rand_state' = f_f'.rand
    /\ UNCHANGED <<integVars, buildVars, f_pc, f_seed, f_results, f_replay, xfirst, mainVars, trajVars, scoreVars>>

\* return candidate;
FindReturn ==
    /\ f_pc = "loop" /\ ~(f_f.i < MaxAttempts)
    /\ f_results' = Append(f_results, f_f.candidate)
    /\ f_pc' = "returned"
    /\ UNCHANGED <<integVars, buildVars, f_seed, f_f, f_samples, f_best, f_replay, envVars, mainVars,
                   trajVars, scoreVars>>

\* drawSingleTrajectory(win, system, nice_path_start, nice_path_length, ...)
Replay ==
    /\ f_pc = "returned"
    /\ f_replay' = generateGliderTrajectory(f_f.candidate, system, SpiralFactor,
                                            MaxSteps, RandValue(rand_state) % 2 = 1)
    /\ rand_state' = RandNext(rand_state)
    /\ f_pc' = "idle"
    /\ UNCHANGED <<integVars, buildVars, f_seed, f_f, f_samples, f_best, f_results, xfirst, mainVars,
                   trajVars, scoreVars>>

SearchNext == OtherTrajectory \/ FindCall \/ FindStep \/ FindReturn \/ Replay

SpecSearch == SearchInit /\ [][SearchNext]_vars

(***************************************************************************)
(* The program: main of src/src/glider.cpp.  One action per event handled  *)
(* in the poll loop, and one for the redraw block that runs once the       *)
(* polled batch is empty.                                                  *)
(***************************************************************************)
RECURSIVE RandAdvance(_, _)
RandAdvance(st, n) == IF n = 0 THEN st ELSE RandAdvance(RandNext(st), n - 1)

\* the glider count of the redraw's drawTrajectories call
GlidersDrawn(d) == IF d = "trajectories" THEN NrGliders ELSE NrPlotGliders

\* the screenshots directory without a file
NoFiles == [n \in {} |-> 0]

\* std::mt19937 rng(seed); System system(nr_planets, bounds, rng); ...
Init ==
    /\ xfirst \in BOOLEAN
    /\ m_file = "src/src/glider.cpp"
    /\ m_pc = "poll"
    /\ seed = InitialSeed
    /\ system = NewSystem(NrPlanets, Bounds, MtSeed(seed), xfirst).sys
    /\ rng = NewSystem(NrPlanets, Bounds, MtSeed(seed), xfirst).rng
    /\ display = "trajectories"
    /\ redraw = TRUE
    /\ draw_nice_path = FALSE
    /\ nice_path_seed = InitialNicePathSeed
    /\ win_open = TRUE
    /\ screenshots = NoFiles
    /\ rand_state = RandInit
    /\ built_seed = seed
    /\ last_key = "none"
    /\ n_pressed = FALSE
    /\ TrajIdle /\ ScoreIdle /\ FindIdle /\ BuildIdle /\ IntegIdle

\* win.pollEvent(event) returns an event: the window is open and the loop
\* of src/src/glider.cpp is polling
Polls == m_file = "src/src/glider.cpp" /\ m_pc = "poll" /\ win_open

\* case sf::Event::MouseButtonPressed: drawSingleTrajectory generates one
\* trajectory from the clicked point and scores it
MouseButtonPressed ==
    /\ Polls
    /\ rand_state' = RandNext(rand_state)
    /\ last_key' = "none"
    /\ UNCHANGED <<integVars, buildVars, m_file, m_pc, seed, rng, system, display, redraw,
                   draw_nice_path, nice_path_seed, win_open, screenshots, built_seed,
                   n_pressed, xfirst, trajVars, scoreVars, findVars>>

\* case sf::Event::Closed: win.close()
Closed ==
    /\ Polls
    /\ win_open' = FALSE
    /\ last_key' = "none"
    /\ UNCHANGED <<integVars, buildVars, m_file, m_pc, seed, rng, system, display, redraw,
                   draw_nice_path, nice_path_seed, screenshots, built_seed, n_pressed,
                   envVars, trajVars, scoreVars, findVars>>

\* case sf::Keyboard::Escape: case sf::Keyboard::Q: win.close()
KeyQuit ==
    /\ Polls
    /\ win_open' = FALSE
    /\ last_key' \in {"Escape", "Q"}
    /\ UNCHANGED <<integVars, buildVars, m_file, m_pc, seed, rng, system, display, redraw,
                   draw_nice_path, nice_path_seed, screenshots, built_seed, n_pressed,
                   envVars, trajVars, scoreVars, findVars>>

\* R pressed that raises the seed whether shift is held or not
SeedStepUp(sd, shift) == sd + 1

\* if (event.key.shift) --seed; else ++seed;
SeedStep(sd, shift) == IF shift THEN sd - 1 ELSE sd + 1

\* case sf::Keyboard::R
KeyR ==
    /\ Polls
    /\ \E shift \in BOOLEAN :
          /\ seed' = SeedStep(seed, shift)
          /\ last_key' = IF shift THEN "shift-R" ELSE "R"
    /\ seed' \in InitialSeed .. InitialSeed + MaxSeed
    /\ redraw' = TRUE
    /\ UNCHANGED <<integVars, buildVars, m_file, m_pc, rng, system, display, draw_nice_path,
                   nice_path_seed, win_open, screenshots, built_seed, n_pressed,
                   envVars, trajVars, scoreVars, findVars>>

\* case sf::Keyboard::T
KeyT ==
    /\ Polls
    /\ redraw' = TRUE
    /\ display' = "trajectories"
    /\ draw_nice_path' = FALSE
    /\ last_key' = "none"
    /\ UNCHANGED <<integVars, buildVars, m_file, m_pc, seed, rng, system, nice_path_seed, win_open,
                   screenshots, built_seed, n_pressed, envVars, trajVars, scoreVars,
                   findVars>>

\* case sf::Keyboard::P, G and A
KeyPlot ==
    /\ Polls
    /\ redraw' = TRUE
    /\ display' \in {"potential", "gravity", "angular_gradient"}
    /\ last_key' = "none"
    /\ UNCHANGED <<integVars, buildVars, m_file, m_pc, seed, rng, system, draw_nice_path,
                   nice_path_seed, win_open, screenshots, built_seed, n_pressed,
                   envVars, trajVars, scoreVars, findVars>>

\* the decimal digits of i, the last first
RECURSIVE Digits(_)
Digits(i) == IF i < 10 THEN <<i>> ELSE <<i % 10>> \o Digits(i \div 10)

\* std::setfill('0') << std::setw(4) << i: at least four digits
RECURSIVE Padded(_)
Padded(ds) == IF Len(ds) >= 4 THEN ds ELSE Padded(Append(ds, 0))

\* mkpath(i): the file glider_<seed>_<i, four digits>.png
mkpath(sd, i) == <<"glider", sd, Padded(Digits(i))>>

\* the index written to without a look at the files: always the first
FirstShot(files, sd, i) == i

\* std::size_t i = 0; while (fs::exists(mkpath(i))) ++i;
RECURSIVE FreeShot(_, _, _)
FreeShot(files, sd, i) ==
    IF mkpath(sd, i) \in DOMAIN files THEN FreeShot(files, sd, i + 1) ELSE i

\* the files this run has written: a file holds the number of the
\* saveToFile call that wrote it, and 0 when an earlier run left it
ShotsTaken(files) == {n \in DOMAIN files : files[n] # 0}

\* screenshot.saveToFile(path): the file is created or replaced
SaveToFile(files, path) ==
    [n \in DOMAIN files \cup {path} |->
        IF n = path THEN Cardinality(ShotsTaken(files)) + 1 ELSE files[n]]

\* saveScreenshot(win, seed)
saveScreenshot(files, sd) == SaveToFile(files, mkpath(sd, FreeShot(files, sd, 0)))

\* case sf::Keyboard::S: saveScreenshot(win, seed)
KeyS ==
    /\ Polls
    /\ Cardinality(ShotsTaken(screenshots)) < MaxShots
    /\ screenshots' = saveScreenshot(screenshots, seed)
    /\ last_key' = "none"
    /\ UNCHANGED <<integVars, buildVars, m_file, m_pc, seed, rng, system, display, redraw,
                   draw_nice_path, nice_path_seed, win_open, built_seed, n_pressed,
                   envVars, trajVars, scoreVars, findVars>>

\* case sf::Keyboard::N
KeyN ==
    /\ Polls
    /\ \E shift \in BOOLEAN :
          /\ nice_path_seed' = IF shift THEN nice_path_seed - 1 ELSE nice_path_seed + 1
          /\ nice_path_seed' \in InitialNicePathSeed .. InitialNicePathSeed + MaxNiceSeed
    /\ draw_nice_path' = TRUE
    /\ redraw' = TRUE
    /\ n_pressed' = TRUE
    /\ last_key' = "none"
    /\ UNCHANGED <<integVars, buildVars, m_file, m_pc, seed, rng, system, display, win_open,
                   screenshots, built_seed, envVars, trajVars, scoreVars, findVars>>

\* win.pollEvent(event) returns false: the batch is empty, or the window is
\* closed
PollEmpty ==
    /\ m_file = "src/src/glider.cpp" /\ m_pc = "poll"
    /\ m_pc' = "polled"
    /\ last_key' = "none"
    /\ UNCHANGED <<integVars, buildVars, m_file, seed, rng, system, display, redraw, draw_nice_path,
                   nice_path_seed, win_open, screenshots, built_seed,
                   n_pressed, envVars, trajVars, scoreVars, findVars>>

\* while (win.isOpen())
LoopTest(open) == IF open THEN "poll" ELSE "exit"

\* a redraw that keeps drawing from the generator as the last construction
\* left it
KeepGenerator(st, sd) == st

\* rng.seed(seed) of the redraw block
Reseed(st, sd) == MtSeed(sd)

\* the redraw draws the nice path
DrawsNicePath == display = "trajectories" /\ draw_nice_path

\* if (redraw) { ... }: the system is rebuilt from the reseeded generator,
\* the gliders are drawn (one rand() each), and in the trajectories display
\* with draw_nice_path the nice path is searched and replayed
Redraw ==
    /\ m_file = "src/src/glider.cpp" /\ m_pc = "polled"
    /\ redraw
    /\ rng' = NewSystem(NrPlanets, Bounds, Reseed(rng, seed), xfirst).rng
    /\ system' = NewSystem(NrPlanets, Bounds, Reseed(rng, seed), xfirst).sys
    /\ built_seed' = seed
    /\ rand_state' = RandAdvance(rand_state,
                                 GlidersDrawn(display)
                                 + (IF DrawsNicePath THEN MaxAttempts + 1 ELSE 0))
    /\ redraw' = FALSE
    /\ n_pressed' = FALSE
    /\ m_pc' = LoopTest(win_open)
    /\ last_key' = "none"
    /\ UNCHANGED <<integVars, buildVars, m_file, seed, display, draw_nice_path, nice_path_seed,
                   win_open, screenshots, xfirst, trajVars, scoreVars,
                   findVars>>

\* the redraw block is skipped
NoRedraw ==
    /\ m_file = "src/src/glider.cpp" /\ m_pc = "polled"
    /\ ~redraw
    /\ m_pc' = LoopTest(win_open)
    /\ last_key' = "none"
    /\ UNCHANGED <<integVars, buildVars, m_file, seed, rng, system, display, redraw, draw_nice_path,
                   nice_path_seed, win_open, screenshots, built_seed,
                   n_pressed, envVars, trajVars, scoreVars, findVars>>

Next ==
    \/ MouseButtonPressed
    \/ Closed
    \/ KeyQuit
    \/ KeyR
    \/ KeyT
    \/ KeyPlot
    \/ KeyS
    \/ KeyN
    \/ PollEmpty
    \/ Redraw
    \/ NoRedraw

Spec == Init /\ [][Next]_vars

(***************************************************************************)
(* saveScreenshot in a screenshots directory that holds files of earlier   *)
(* runs, for the seeds R can reach and the indices up to MaxOldShots.      *)
(***************************************************************************)
OldShots ==
    {mkpath(sd, i) : sd \in InitialSeed .. InitialSeed + MaxSeed, i \in 0 .. MaxOldShots}

ShotInit ==
    /\ xfirst \in BOOLEAN
    /\ m_file = "src/src/glider.cpp"
    /\ m_pc = "poll"
    /\ seed = InitialSeed
    /\ system = NewSystem(NrPlanets, Bounds, MtSeed(seed), xfirst).sys
    /\ rng = NewSystem(NrPlanets, Bounds, MtSeed(seed), xfirst).rng
    /\ display = "trajectories"
    /\ redraw = TRUE
    /\ draw_nice_path = FALSE
    /\ nice_path_seed = InitialNicePathSeed
    /\ win_open = TRUE
    /\ screenshots \in {[n \in old |-> 0] : old \in SUBSET OldShots}
    /\ rand_state = RandInit
    /\ built_seed = seed
    /\ last_key = "none"
    /\ n_pressed = FALSE
    /\ TrajIdle /\ ScoreIdle /\ FindIdle /\ BuildIdle /\ IntegIdle

ShotNext == KeyS \/ KeyR

SpecShot == ShotInit /\ [][ShotNext]_vars

(***************************************************************************)
(* The older main kept in src/glider.cpp, with its own System: R rebuilds  *)
(* and redraws inside the handler, there is no redraw block.  A run        *)
(* follows this main or the one of src/src/glider.cpp.                     *)
(***************************************************************************)
\* populatePlanets of the older System: the position, then the mass
RECURSIVE OldPopulatePlanets(_, _, _, _, _)
OldPopulatePlanets(n, max_mass, bounds, st, xf) ==
    IF n = 0 THEN [planets |-> <<>>, rng |-> st]
    ELSE LET rest == OldPopulatePlanets(n - 1, max_mass, bounds, st, xf)
             rp == randomPoint(bounds, rest.rng, xf)
             dm == UniformDraw(0, max_mass, rp.rng)
         IN [planets |-> Append(rest.planets, [pos |-> rp.p, mass |-> dm.v]),
             rng |-> dm.rng]

\* System(n, bounds, seed): rng.seed(seed); populatePlanets(n, 1.0, rng);
OldSystem(n, bounds, sd, xf) ==
    [bounds |-> bounds,
     planets |-> OldPopulatePlanets(n, MassLevels, bounds, MtSeed(sd), xf).planets]

OldInit ==
    /\ xfirst \in BOOLEAN
    /\ m_file = "src/glider.cpp"
    /\ m_pc = "poll"
    /\ seed = OldInitialSeed
    /\ system = OldSystem(NrPlanets, Bounds, seed, xfirst)
    /\ built_seed = seed
    /\ win_open = TRUE
    /\ rng = 0 /\ display = "trajectories" /\ redraw = FALSE
    /\ draw_nice_path = FALSE /\ nice_path_seed = 0
    /\ screenshots = NoFiles
    /\ rand_state = RandInit
    /\ last_key = "none"
    /\ n_pressed = FALSE
    /\ TrajIdle /\ ScoreIdle /\ FindIdle /\ BuildIdle /\ IntegIdle

OldPolls == m_file = "src/glider.cpp" /\ m_pc = "poll" /\ win_open

\* case sf::Event::Closed: win.close()
OldClosed ==
    /\ OldPolls
    /\ win_open' = FALSE
    /\ last_key' = "none"
    /\ UNCHANGED <<integVars, buildVars, m_file, m_pc, seed, rng, system, display, redraw,
                   draw_nice_path, nice_path_seed, screenshots, built_seed, n_pressed,
                   envVars, trajVars, scoreVars, findVars>>

\* case sf::Keyboard::Q: win.close()
OldKeyQ ==
    /\ OldPolls
    /\ win_open' = FALSE
    /\ last_key' = "Q"
    /\ UNCHANGED <<integVars, buildVars, m_file, m_pc, seed, rng, system, display, redraw,
                   draw_nice_path, nice_path_seed, screenshots, built_seed, n_pressed,
                   envVars, trajVars, scoreVars, findVars>>

\* case sf::Keyboard::R: ++seed; system = System(n, bounds, seed); drawAll
OldKeyR ==
    /\ OldPolls
    /\ seed' = seed + 1
    /\ seed' \in OldInitialSeed .. OldInitialSeed + MaxSeed
    /\ system' = OldSystem(NrPlanets, Bounds, seed', xfirst)
    /\ built_seed' = seed'
    /\ last_key' \in {"R", "shift-R"}
    /\ UNCHANGED <<integVars, buildVars, m_file, m_pc, rng, display, redraw, draw_nice_path,
                   nice_path_seed, win_open, screenshots, n_pressed, envVars, trajVars,
                   scoreVars, findVars>>

\* default: Escape, like every other key, is ignored
OldKeyEscape ==
    /\ OldPolls
    /\ last_key' = "Escape"
    /\ UNCHANGED <<integVars, buildVars, m_file, m_pc, seed, rng, system, display, redraw,
                   draw_nice_path, nice_path_seed, win_open, screenshots, built_seed,
                   n_pressed, envVars, trajVars, scoreVars, findVars>>

\* win.pollEvent(event) returns false, then while (win.isOpen())
OldPollEmpty ==
    /\ m_file = "src/glider.cpp" /\ m_pc = "poll"
    /\ m_pc' = LoopTest(win_open)
    /\ last_key' = "none"
    /\ UNCHANGED <<integVars, buildVars, m_file, seed, rng, system, display, redraw,
                   draw_nice_path, nice_path_seed, win_open, screenshots, built_seed,
                   n_pressed, envVars, trajVars, scoreVars, findVars>>

OldNext == OldClosed \/ OldKeyQ \/ OldKeyR \/ OldKeyEscape \/ OldPollEmpty

MainsInit == Init \/ OldInit

MainsNext == Next \/ OldNext

SpecMains == MainsInit /\ [][MainsNext]_vars

(***************************************************************************)
(* System::System (src/unnamed/part_003 lines 213-230), statement by       *)
(* statement.  The inputs: a planet count from -1 to NrPlanets, the        *)
(* window or a rectangle with an empty or a reversed axis as bounds, any   *)
(* state of the generator handed in.                                       *)
(***************************************************************************)
Rect(x0, y0, x1, y1) == <<Pt(x0, y0), Pt(x1, y1)>>

BuildBounds ==
    {Bounds,
     Rect(Width \div 2, Height \div 2, Width, Height),
     Rect(0, 0, 0, Height), Rect(0, 0, Width, 0),
     Rect(Width, 0, 0, Height), Rect(0, Height, Width, 0)}

\* uniform_real_distribution(a, b) with b < a: outside its precondition
Reversed(bounds) == bounds[2].x < bounds[1].x \/ bounds[2].y < bounds[1].y

\* what planets.resize(n) fills the list with: Planet(), point() is (0, 0)
DefaultPlanet == [pos |-> Pt(0, 0), mass |-> 0, ccw |-> FALSE]

BuildInit ==
    /\ xfirst \in BOOLEAN
    /\ c_n \in -1 .. NrPlanets
    /\ c_bounds \in BuildBounds
    /\ c_rng \in {MtSeed(sd) : sd \in 0 .. 63}
    /\ c_pc = "call" /\ c_planets = <<>> /\ c_i = 0 /\ c_draws = 0
    /\ rand_state = RandInit
    /\ system = NewSystem(0, Bounds, c_rng, xfirst).sys
    /\ MainIdle /\ TrajIdle /\ ScoreIdle /\ FindIdle /\ IntegIdle

\* planets.resize(n): the int converts to std::size_t, and a negative one
\* exceeds max_size(), so that resize throws std::length_error
BuildResize ==
    /\ c_pc = "call"
    /\ IF c_n < 0
       THEN c_pc' = "length_error" /\ c_planets' = c_planets
       ELSE c_pc' = "fill" /\ c_planets' = [k \in 1 .. c_n |-> DefaultPlanet]
    /\ UNCHANGED <<integVars, c_n, c_bounds, c_rng, c_i, c_draws, envVars, mainVars, trajVars,
                   scoreVars, findVars>>

\* one pass of for(auto &p:planets): ccw, then the position, then the mass
BuildPlanet ==
    /\ c_pc = "fill" /\ c_i < Len(c_planets)
    /\ LET pp == populatePlanets(1, MassLevels, c_bounds, c_rng, xfirst)
       IN /\ c_planets' = [c_planets EXCEPT ![c_i + 1] = pp.planets[1]]
          /\ c_rng' = pp.rng
    /\ c_i' = c_i + 1
    /\ c_draws' = c_draws + 2
    /\ UNCHANGED <<integVars, c_pc, c_n, c_bounds, envVars, mainVars, trajVars, scoreVars,
                   findVars>>

\* a pass in a build that asserts the distributions' precondition: ccw is
\* drawn, then the construction of dist_x or dist_y aborts the program
BuildAssert ==
    /\ c_pc = "fill" /\ c_i < Len(c_planets) /\ Reversed(c_bounds)
    /\ c_rng' = BernoulliDraw(c_rng).rng
    /\ c_pc' = "aborted"
    /\ UNCHANGED <<integVars, c_n, c_bounds, c_planets, c_i, c_draws, envVars, mainVars,
                   trajVars, scoreVars, findVars>>

\* the end of the constructor: the System exists
BuildReturn ==
    /\ c_pc = "fill" /\ c_i = Len(c_planets)
    /\ c_pc' = "done"
    /\ UNCHANGED <<integVars, c_n, c_bounds, c_rng, c_planets, c_i, c_draws, envVars, mainVars,
                   trajVars, scoreVars, findVars>>

BuildNext == BuildResize \/ BuildPlanet \/ BuildAssert \/ BuildReturn

SpecBuild == BuildInit /\ [][BuildNext]_vars

(***************************************************************************)
(* The steppers of integrator.hpp, called on one triple (start, f, h), up  *)
(* to MaxIntegCalls times, in any order.                                   *)
(***************************************************************************)
IntegInit ==
    /\ i_start \in {Pt(a, b) : a \in -IntegGrid .. IntegGrid, b \in -IntegGrid .. IntegGrid}
    /\ i_f \in VelocityFuncs
    /\ i_h \in 1 .. MaxStepsize
    /\ i_out = <<>>
    /\ rand_state = RandInit /\ xfirst = TRUE
    /\ system = NewSystem(0, Bounds, 0, xfirst).sys
    /\ MainIdle /\ TrajIdle /\ ScoreIdle /\ FindIdle /\ BuildIdle

\* the record of one call of a stepper on the triple
Called(method) == [method |-> method, result |-> Integrate(method, i_start, i_f, i_h)]

\* integrator::explicitEuler(start, f, h)
CallExplicitEuler ==
    /\ Len(i_out) < MaxIntegCalls
    /\ i_out' = Append(i_out, Called("explicitEuler"))
    /\ UNCHANGED <<i_start, i_f, i_h, buildVars, envVars, mainVars, trajVars,
                   scoreVars, findVars>>

\* integrator::midpoint(start, f, h)
CallMidpoint ==
    /\ Len(i_out) < MaxIntegCalls
    /\ i_out' = Append(i_out, Called("midpoint"))
    /\ UNCHANGED <<i_start, i_f, i_h, buildVars, envVars, mainVars, trajVars,
                   scoreVars, findVars>>

\* integrator::rungeKutta4(start, f, h)
CallRungeKutta4 ==
    /\ Len(i_out) < MaxIntegCalls
    /\ i_out' = Append(i_out, Called("rungeKutta4"))
    /\ UNCHANGED <<i_start, i_f, i_h, buildVars, envVars, mainVars, trajVars,
                   scoreVars, findVars>>

IntegNext == CallExplicitEuler \/ CallMidpoint \/ CallRungeKutta4

SpecInteg == IntegInit /\ [][IntegNext]_vars

PointsOutside == {j \in 1 .. Len(s_path) : OutOfBounds(s_path[j], system.bounds)}

\* C7 (as stated): scorePath returns exactly 100 * (committed switches) -
\* (3 per out-of-bounds point + 500 per crash point); nothing else
\* contributes.
C7_ScoreFormula ==
    s_pc = "done" =>
        s_score = FNum(SwitchBonus * s_s.planet_switches
                       - (OobPenalty * s_oob + CrashPenalty * s_crash))

\* C8 (as stated): the out-of-bounds part of the penalty is 3 times the
\* number of points of the path outside bounds, the first point included.
C8_OobPenaltyCountsEveryPoint ==
    s_pc = "done" =>
        s_s.penalty - CrashPenalty * s_crash = OobPenalty * Cardinality(PointsOutside)

\* C9 (as stated): a non-empty path all of whose points lie outside bounds
\* commits no switch, gets no crash penalty and scores strictly below zero.
C9_AllOutsideIsNegative ==
    (s_pc = "done" /\ Len(s_path) > 0 /\ Cardinality(PointsOutside) = Len(s_path)) =>
        /\ s_s.planet_switches = 0
        /\ s_crash = 0
        /\ s_score.k = "fin" /\ s_score.v < 0

\* the 0-based id of the planet nearest to path point j
NearestTo(j) == NewClosestPlanet(system, s_path[j])

\* an in-bounds path of numbers that keeps squared distance 100 or more
\* from every planet and whose points all have the same nearest planet
StaysInOneZone ==
    /\ Len(s_path) > 0
    /\ \A j \in 1 .. Len(s_path) :
          /\ ~s_path[j].nan
          /\ ~OutOfBounds(s_path[j], system.bounds)
          /\ \A k \in 1 .. Len(system.planets) :
                ~Crashed(PtSub(system.planets[k].pos, s_path[j]))
          /\ NearestTo(j) = NearestTo(1)

\* C10 (as stated, its particular case): an in-bounds path that never
\* comes within squared distance 100 of a planet and stays nearest to one
\* and the same planet, whichever index it has, scores 0.
C10_OneZoneScoresZero == (s_pc = "done" /\ StaysInOneZone) => s_score = FNum(0)

\* C2 (as stated): the first sampled candidate is always accepted as the
\* running best, whatever its score, so a search of one attempt returns
\* exactly that sampled point.
C2_FirstCandidateAccepted ==
    (f_pc = "loop" /\ f_f.i = 1) =>
        /\ f_f.candidate = f_samples[1].p
        /\ f_f.candidate_score = f_samples[1].score

\* sample j has the maximal score and no later sample reaches it
LastBest(j) ==
    /\ \A k \in 1 .. Len(f_samples) : FGe(f_samples[j].score, f_samples[k].score)
    /\ \A k \in j + 1 .. Len(f_samples) : f_samples[k].score # f_samples[j].score

\* C3 (as stated): findNicePath returns the start point of a sampled
\* candidate whose score is the maximum over all sampled candidates, the
\* one sampled last among those sharing the maximum.
C3_ReturnsLastBestSample ==
    f_pc = "returned" =>
        \E j \in 1 .. Len(f_samples) : LastBest(j) /\ f_f.candidate = f_samples[j].p

\* C4 (as stated): two runs of findNicePath with the same system, spiral
\* factor, max steps, bounds and seed return the same start point, whatever
\* was called before each.
C4_SameArgumentsSameResult == Len(f_results) = 2 => f_results[1] = f_results[2]

\* C5 (as stated): replaying the returned start point through
\* generateGliderTrajectory with the same system, spiral factor and max
\* steps regenerates the trajectory that was scored for it in the search.
C5_ReplayIsScoredTrajectory ==
    (f_pc = "idle" /\ f_replay # <<>> /\ f_best # <<>>) => f_replay = f_best

\* C6: the system in use is always, planet for planet and in order, the one
\* a generator freshly seeded with the seed it was built from constructs,
\* and a redraw that finds the seed unchanged since the last construction
\* leaves the planets unchanged.
C6_SameSeedSamePlanets ==
    /\ [](system.planets
            = populatePlanets(NrPlanets, MassLevels, Bounds, MtSeed(built_seed),
                              xfirst).planets)
    /\ [][(redraw /\ ~redraw' /\ seed = built_seed)
             => system'.planets = system.planets]_vars

\* C6: a redraw has run after the display changed, the seed still the one
\* the system was first constructed from.
C6_Witness ==
    /\ ~redraw
    /\ display = "potential"
    /\ seed = InitialSeed
    /\ built_seed = seed
    /\ Len(system.planets) = NrPlanets

\* a pass of the loop of scorePath has run: s_prev holds the locals before
\* it, and the point it processed is LastPoint
Passed == s_pc \in {"loop", "done"} /\ s_s.i = s_prev.i + 1

LastPoint == s_path[s_s.i]

\* squared distance of planet id (0-based) from a point that is a number
SqDistTo(id, p) ==
    (system.planets[id + 1].pos.x - p.x) * (system.planets[id + 1].pos.x - p.x)
    + (system.planets[id + 1].pos.y - p.y) * (system.planets[id + 1].pos.y - p.y)

\* the last pass met an in-bounds point whose nearest planet is not the one
\* tracked
NearestDiffers ==
    /\ Passed
    /\ ~OutOfBounds(LastPoint, system.bounds)
    /\ NewClosestPlanet(system, LastPoint) # s_prev.current_closest_planet

\* the last pass committed a switch to the nearest planet
SwitchCommitted ==
    /\ s_s.planet_switches = s_prev.planet_switches + 1
    /\ s_s.current_closest_planet = NewClosestPlanet(system, LastPoint)

\* the last pass left the switch count and the tracked planet as they were
SwitchRefused ==
    /\ s_s.planet_switches = s_prev.planet_switches
    /\ s_s.current_closest_planet = s_prev.current_closest_planet

\* C11 (as amended): at an in-bounds point whose nearest planet differs from
\* the tracked planet (current_closest_planet, planet 0 at the start), the
\* switch is committed and counted if and only if 1.2 times the SQUARED
\* distance to the nearest planet is below the squared distance to the
\* tracked planet; otherwise count and tracked planet stay as they were.
C11_SwitchOnSquaredMargin ==
    NearestDiffers =>
        IF /\ ~LastPoint.nan
           /\ 12 * SqDistTo(NewClosestPlanet(system, LastPoint), LastPoint)
                < 10 * SqDistTo(s_prev.current_closest_planet, LastPoint)
        THEN SwitchCommitted
        ELSE SwitchRefused

\* C11 witness: a switch has been committed at a point where the nearest
\* planet is less than 20% closer in distance, more than 20% in squared
\* distance
C11_Witness ==
    /\ NearestDiffers
    /\ SwitchCommitted
    /\ ~LastPoint.nan
    /\ 144 * SqDistTo(s_s.current_closest_planet, LastPoint)
         >= 100 * SqDistTo(s_prev.current_closest_planet, LastPoint)

\* C11 (as stated): the switch is committed if and only if the nearest
\* planet is closer than the tracked planet by more than a 20% margin in
\* distance.
C11_SwitchOnDistanceMargin ==
    NearestDiffers =>
        (SwitchCommitted <=>
            /\ ~LastPoint.nan
            /\ 144 * SqDistTo(NewClosestPlanet(system, LastPoint), LastPoint)
                 < 100 * SqDistTo(s_prev.current_closest_planet, LastPoint))

\* what the last pass added to the penalty
PenaltyAdded == s_s.penalty - s_prev.penalty

\* C12: a pass at an in-bounds point adds 500 to the penalty if and only if
\* the point's squared distance to the planet tracked after the pass's
\* switch decision is below 100, and nothing otherwise; a pass at an
\* out-of-bounds point adds the out-of-bounds penalty only.
C12_CrashPenaltyWithinRadius ==
    Passed =>
        IF OutOfBounds(LastPoint, system.bounds) THEN PenaltyAdded = OobPenalty
        ELSE IF ~LastPoint.nan /\ SqDistTo(s_s.current_closest_planet, LastPoint) < 100
             THEN PenaltyAdded = CrashPenalty
             ELSE PenaltyAdded = 0

\* C12 witness: a pass has committed a switch and charged the crash against
\* the planet switched to, the planet tracked before being further than 10
C12_Witness ==
    /\ NearestDiffers
    /\ SwitchCommitted
    /\ PenaltyAdded = CrashPenalty
    /\ SqDistTo(s_prev.current_closest_planet, LastPoint) >= 100

\* the squared displacement from a to b is a number below 0.005 or above 400
DisplacementStops(a, b) ==
    /\ ~a.nan /\ ~b.nan
    /\ LET d == (b.x - a.x) * (b.x - a.x) + (b.y - a.y) * (b.y - a.y)
       IN d > 400 \/ 1000 * d < 5

\* the integrator steps the call has executed: one per appended point, and
\* the one that stopped the loop
StepsExecuted == g_t.step + (IF g_t.brk THEN 1 ELSE 0)

\* C13: generateGliderTrajectory stops at the first step whose squared
\* displacement is below 0.005 or above 400: every appended point came from
\* a step that did not meet the condition, the position of the stopping
\* step is not appended, and once a step has met it the call executes no
\* further step and appends no further point.
C13_StopsAtFirstOutOfRangeStep ==
    /\ [](g_pc \in {"loop", "done"} =>
            /\ \A j \in 2 .. Len(g_t.points) :
                  ~DisplacementStops(g_t.points[j - 1], g_t.points[j])
            /\ Len(g_t.points) = g_t.step + 1
            /\ g_t.brk => DisplacementStops(g_t.points[Len(g_t.points)], g_t.pos))
    /\ [][(g_pc \in {"loop", "done"} /\ g_t.brk) => g_t' = g_t]_vars

\* C13 witness: a call has returned early, stopped by its second step or a
\* later one
C13_Witness ==
    /\ g_pc = "done"
    /\ g_t.brk
    /\ Len(g_t.points) >= 2
    /\ g_t.step < g_max_steps

\* C15 (as stated): a trajectory started exactly at a planet's position
\* meets the stall condition within one step, so the call returns after at
\* most one integrator step.
C15_PlanetStartStallsAtOnce ==
    (g_pc = "done" /\ \E k \in 1 .. Len(system.planets) : g_start = system.planets[k].pos)
        => StepsExecuted <= 1

\* C16 (as stated): on a system with zero planets the call returns the
\* single-point trajectory that consists of the start point.
C16_NoPlanetsSinglePoint ==
    (g_pc = "done" /\ Len(system.planets) = 0) => g_t.points = <<g_start>>

\* C14 (as stated): for every maxSteps >= 0, zero included, a call of
\* generateGliderTrajectory executes at most maxSteps integrator steps, in
\* src/src/glider.hpp and in the older variant of src/unnamed/part_003.
C14_StepsBoundedByMaxSteps ==
    /\ g_pc \in {"loop", "done"} => StepsExecuted <= g_max_steps
    /\ l_pc \in {"loop", "done"} => Len(l_t.points) <= g_max_steps

\* the position the older generateGliderTrajectory stepped from to reach
\* its j-th point
LegacyFrom(j) == IF j = 1 THEN g_start ELSE l_t.points[j - 1]

\* potential(start), increased after each of the first j steps by
\* weightedAngleDiff(oldPos, newPos) * spiralFactor when spiralFactor # 0
RECURSIVE DesiredAfter(_)
DesiredAfter(j) ==
    IF j = 0 THEN probePotential(system, g_start)
    ELSE IF g_spiral = 0 THEN DesiredAfter(j - 1)
    ELSE FSum(DesiredAfter(j - 1),
              FScale(g_spiral,
                     probeWeightedAngleDiff(system, LegacyFrom(j), l_t.points[j])))

StepParameter == FNum(g_spiral)

Degenerate(bounds) == bounds[1].x >= bounds[2].x \/ bounds[1].y >= bounds[2].y

\* C18: a construction with degenerate bounds or a negative planet count
\* fails fast: it produces no System and draws nothing from the bounds
C18_BadArgumentsFailFast ==
    (c_n < 0 \/ Degenerate(c_bounds)) => (c_pc # "done" /\ c_draws = 0)

\* C19: a step of a call of generateGliderTrajectory leaves the planet
\* system, its bounds and the state of the C library's generator, which
\* later calls read, unchanged
C19_CallLeavesSharedStateUnchanged ==
    [][g_pc # "idle" => (system' = system /\ rand_state' = rand_state)]_vars

InRect(p, bounds) ==
    /\ bounds[1].x <= p.x /\ p.x < bounds[2].x
    /\ bounds[1].y <= p.y /\ p.y < bounds[2].y

\* C20: a System constructed with n >= 0 and a proper rectangle holds n
\* planets, each inside the rectangle with a mass above 0 and below the
\* maximum mass
C20_PlanetsInRange ==
    (c_pc = "done" /\ c_n >= 0 /\ ~Degenerate(c_bounds)) =>
        /\ Len(c_planets) = c_n
        /\ \A k \in 1 .. Len(c_planets) :
               /\ InRect(c_planets[k].pos, c_bounds)
               /\ c_planets[k].mass > 0
               /\ c_planets[k].mass < MassLevels

\* C22 (as stated): the new position of every executed step is appended
\* before the termination conditions are checked, so the sequence holds the
\* start and one point per executed step, the stopping step's included.
C22_EveryStepAppended ==
    g_pc \in {"loop", "done"} => Len(g_t.points) = 1 + StepsExecuted

\* C23 (as stated): the score is decided by the switch count and the total
\* penalty alone, whatever the accumulated path length is.
C23_ScoreIgnoresPathLength ==
    s_pc = "done" => s_score = ScoreOf([s_s EXCEPT !.path_length = FNum(0)])

\* C26: the sequence of generateGliderTrajectory is never empty and starts
\* with the start point, so drawSingleTrajectory has a first vertex, the
\* start, to hand to win.draw.
C26_StartsWithStart ==
    g_pc \in {"loop", "done"} =>
        /\ Len(g_t.points) >= 1
        /\ g_t.points[1] = g_start
        /\ Len(Vertices(g_t.points, "white")) >= 1
        /\ Vertices(g_t.points, "white")[1].position = g_start

\* C26 witness: a call with maxSteps = 0 has returned; its sequence is the
\* start point alone
C26_Witness ==
    g_pc = "done" /\ g_max_steps = 0 /\ Len(Vertices(g_t.points, "white")) = 1

\* the displacement from a to b is not a number, or at most the step size
StepWithinStepsize(a, b) ==
    a.nan \/ b.nan \/ sqmag(PtSub(b, a)) <= Stepsize * Stepsize

C25_ReadsWithinPlanets == \A id \in s_reads : id < Len(system.planets)

\* h * f(p), and (h / 2) * f(p)
Velocity(p, h) == PtMul(Call(i_f, p), h)

HalfVelocity(p, h) == PtMul(PtDiv(Call(i_f, p), 2), h)

\* start + h*f(start)
RefExplicitEuler == PtAdd(i_start, Velocity(i_start, i_h))

\* start + h*f(start + (h/2)*f(start))
RefMidpoint ==
    PtAdd(i_start, Velocity(PtAdd(i_start, HalfVelocity(i_start, i_h)), i_h))

\* start + (k1 + 2*k2 + 2*k3 + k4)/6 with k1 = h*f(start),
\* k2 = h*f(start + k1/2), k3 = h*f(start + k2/2), k4 = h*f(start + k3)
RefRungeKutta4 ==
    LET k1 == Velocity(i_start, i_h)
        k2 == Velocity(PtAdd(i_start, PtDiv(k1, 2)), i_h)
        k3 == Velocity(PtAdd(i_start, PtDiv(k2, 2)), i_h)
        k4 == Velocity(PtAdd(i_start, k3), i_h)
    IN PtAdd(i_start,
             PtDiv(PtAdd(PtAdd(k1, PtMul(k2, 2)), PtAdd(PtMul(k3, 2), k4)), 6))

Reference(method) ==
    CASE method = "explicitEuler" -> RefExplicitEuler
      [] method = "midpoint" -> RefMidpoint
      [] method = "rungeKutta4" -> RefRungeKutta4

\* C24: every call of a stepper returns its reference formula on (start, f,
\* h); two calls of one stepper on the same triple return the same.
C24_SteppersReturnReference ==
    \A k \in 1 .. Len(i_out) :
        /\ i_out[k].result = Reference(i_out[k].method)
        /\ \A j \in 1 .. Len(i_out) :
              i_out[j].method = i_out[k].method => i_out[j].result = i_out[k].result

\* C24 witness: rungeKutta4 has returned a number that is neither the
\* explicit Euler step nor the midpoint step, and midpoint one that is not
\* the explicit Euler step
C24_Witness ==
    /\ Len(i_out) = 2
    /\ i_out[1].method = "rungeKutta4" /\ ~i_out[1].result.nan
    /\ i_out[1].result \notin {RefExplicitEuler, RefMidpoint}
    /\ i_out[2].method = "midpoint" /\ ~i_out[2].result.nan
    /\ i_out[2].result # RefExplicitEuler

\* the main of src/src/glider.cpp is the one being followed
Current == m_file = "src/src/glider.cpp"

\* C21 (as amended): in src/src/glider.cpp a press of R raises the seed by
\* one, or lowers it by one with shift held, and requests a redraw; when
\* the loop returns to polling after a batch the system is the one built
\* from the seed as the batch left it and no redraw is pending; Q and Escape
\* close the window.  In the older src/glider.cpp every press of R raises
\* the seed by one and rebuilds the system within the handler, Q closes
\* the window and Escape is ignored.  In both, once the window is closed no
\* event is handled and the loop ends with its next test.
C21_SeedStepAndRebuild ==
    /\ [][/\ (Current /\ last_key' = "R") => (seed' = seed + 1 /\ redraw')
          /\ (Current /\ last_key' = "shift-R") => (seed' = seed - 1 /\ redraw')
          /\ (Current /\ last_key' \in {"Q", "Escape"}) => ~win_open'
          /\ (Current /\ m_pc = "polled" /\ m_pc' = "poll")
                => (built_seed' = seed' /\ ~redraw')
          /\ (~Current /\ last_key' \in {"R", "shift-R"})
                => (seed' = seed + 1 /\ built_seed' = seed')
          /\ (~Current /\ last_key' = "Q") => ~win_open'
          /\ (~Current /\ last_key' = "Escape") => win_open' = win_open
          /\ ~win_open => /\ ~win_open' /\ seed' = seed /\ m_pc' # m_pc
                          /\ m_pc' \in {"polled", "exit"}
                          /\ m_pc = "polled" => m_pc' = "exit"]_vars
    /\ []((m_pc = "poll" /\ ~redraw) => built_seed = seed)
    /\ [](m_pc = "exit" => ~win_open)

\* C21 witness: in src/src/glider.cpp R was pressed, the system was rebuilt
\* from the new seed, and a later Q or Escape has ended the loop
C21_Witness ==
    /\ Current /\ m_pc = "exit" /\ ~win_open
    /\ seed # InitialSeed /\ built_seed = seed /\ ~redraw

\* C21 (as stated): R with shift held lowers the seed by one, and Escape
\* closes the window, in every main of the repository.
C21_ShiftLowersEscapeCloses ==
    [][/\ last_key' = "shift-R" => seed' = seed - 1
       /\ last_key' = "Escape" => ~win_open']_vars

\* C28 (as stated): whenever a trajectory is drawn, on a click or in a
\* redraw, the system drawn in was constructed from the current seed.
C28_DrawsInSystemOfSeed ==
    [][(MouseButtonPressed \/ Redraw) => built_seed' = seed']_vars

\* C29 (as stated): the redraw that follows a press of N searches and draws
\* the nice path, whatever the display mode is.
C29_RedrawAfterNDrawsNicePath ==
    [][(Redraw /\ n_pressed) => DrawsNicePath]_vars

\* C30: a call of saveScreenshot writes the file of the smallest index
\* that has no file for the seed, and leaves every file there was, with
\* its content, as it is.
C30_WritesFirstFreeIndex ==
    [][screenshots' # screenshots =>
          /\ \E i \in 0 .. MaxOldShots + MaxShots + 1 :
                /\ mkpath(seed, i) \notin DOMAIN screenshots
                /\ \A j \in 0 .. i - 1 : mkpath(seed, j) \in DOMAIN screenshots
                /\ DOMAIN screenshots' = DOMAIN screenshots \cup {mkpath(seed, i)}
                /\ screenshots'[mkpath(seed, i)] # 0
          /\ \A n \in DOMAIN screenshots : screenshots'[n] = screenshots[n]]_vars

\* C30 witness: the run has written a screenshot at an index above 0, every
\* lower index of the seed holding a file of an earlier run
C30_Witness ==
    \E sd \in InitialSeed .. InitialSeed + MaxSeed, i \in 1 .. MaxOldShots :
        /\ mkpath(sd, i) \in DOMAIN screenshots
        /\ screenshots[mkpath(sd, i)] # 0
        /\ \A j \in 0 .. i - 1 :
              /\ mkpath(sd, j) \in DOMAIN screenshots
              /\ screenshots[mkpath(sd, j)] = 0

====
